---------------------------- MODULE Spec2Model ----------------------------
(***************************************************************************)
(* The conversational research agent of falkenslab/web-seeker-agent.       *)
(*                                                                         *)
(* Two variants of the Agent class exist in the repository:                *)
(*   "agent"   src/src/agent/agent.py    graph llm <-> action, compiled    *)
(*             without checkpointer; the system prompt is prepended to the *)
(*             model's input inside call_openai, once.                     *)
(*   "wiseguy" src/src/wiseguy/agent.py  graph init -> llm <-> action,     *)
(*             compiled with an InMemorySaver under thread_id "1"; ask()   *)
(*             runs synchronously (graph.invoke) or streams                *)
(*             (graph.astream_events).                                     *)
(* The model is one state machine whose variable `variant` selects the     *)
(* class, and whose variable `main` selects the driver: the package's      *)
(* __main__.main, or a library caller that calls ask() repeatedly.         *)
(***************************************************************************)
EXTENDS Integers, Sequences, FiniteSets, TLC

VARIABLES
    variant,    \* which Agent class: "agent" or "wiseguy"
    main,       \* TRUE: driven by __main__.main; FALSE: by a library caller
    system,     \* self.system
    messages,   \* the graph state's "messages" channel
    pc,         \* position of the driver / next node of the graph
    sync,       \* the sync argument of the running ask()
    step,       \* supersteps (node executions) completed in this invoke
    trace,      \* the nodes entered in this invoke, in order
    sent,       \* the message list handed to the model, last invocation
    inflight,   \* streaming: chunks of the running response not yet yielded
    acc,        \* streaming: chunks yielded so far (the client's aggregate)
    emitted,    \* streaming: the fragments printed in this turn
    invoked,    \* the tool capabilities invoked in this turn, in order
    ret,        \* what the last ask() returned
    err,        \* the exception that ended the last ask(), or "none"
    turns,      \* number of ask() calls so far
    baseLen,    \* history: Len(messages) when the running turn began
    log         \* history: every element appended to the state this turn

vars == <<variant, main, system, messages, pc, sync, step, trace, sent,
          inflight, acc, emitted, invoked, ret, err, turns, baseLen, log>>

----------------------------------------------------------------------------
(* Bounds of the model *)

\* ask() calls per behaviour
MaxTurns == 2

\* config["recursion_limit"]: the source sets 50; the driver's behaviour is
\* uniform in the limit, and the model checks it with a small one
RecursionLimit == 5

----------------------------------------------------------------------------
(* Messages: langchain_core.messages *)

Msg(t, c, tcs, id, n) ==
    [type |-> t, content |-> c, tool_calls |-> tcs, tool_call_id |-> id, name |-> n]

SystemMessage(c) == Msg("system", c, <<>>, "", "")

HumanMessage(c) == Msg("human", c, <<>>, "", "")

AIMessage(c, tcs) == Msg("ai", c, tcs, "", "")

ToolMessage(id, n, c) == Msg("tool", c, <<>>, id, n)

\* the Python value [] that init_state puts in the list when self.system
\* is empty: an element of the state that is not a message
EmptyList == Msg("list", "", <<>>, "", "")

ToolCall(id, n, a) == [id |-> id, name |-> n, args |-> a]

\* the system prompt main() configures
Prompt == "SYS"

\* lines the user may type / questions a caller may ask (non-empty)
Questions == {"q"}

\* self.tools: the names of the capabilities given at construction
tools == {"tavily_search"}

\* the string take_action answers an unknown tool name with
RetryString == "nombre de tool no válida, reintentar"

\* values a tool capability may return
ToolResults == {7}

\* str(result)
Str(v) == ToString(v)

\* what one capability invocation does: return a value or raise
ToolOutcomes ==
    {[raises |-> FALSE, value |-> v] : v \in ToolResults}
        \cup {[raises |-> TRUE, value |-> 0]}

----------------------------------------------------------------------------
(* The Model Client: a response is the sequence of chunks it produces *)

Chunk(c, tcs) == [content |-> c, tool_calls |-> tcs]

Answer == <<Chunk("Pa", <<>>), Chunk("ris", <<>>)>>

OneCall == <<Chunk("", <<ToolCall("c1", "tavily_search", "x")>>)>>

\* text, then a call of an unknown tool, then two calls of the same tool
Mixed ==
    <<Chunk("Hm", <<ToolCall("c1", "bogus", "x")>>),
      Chunk("", <<ToolCall("c2", "tavily_search", "x"),
                  ToolCall("c3", "tavily_search", "y")>>)>>

Responses == {Answer, OneCall, Mixed}

RECURSIVE ConcatContent(_)
ConcatContent(cs) ==
    IF cs = <<>> THEN "" ELSE Head(cs).content \o ConcatContent(Tail(cs))

RECURSIVE ConcatCalls(_)
ConcatCalls(cs) ==
    IF cs = <<>> THEN <<>> ELSE Head(cs).tool_calls \o ConcatCalls(Tail(cs))

\* the message the client returns once all chunks have arrived
Assemble(cs) == AIMessage(ConcatContent(cs), ConcatCalls(cs))

----------------------------------------------------------------------------
InTurn == {"init", "llm", "stream", "action"}

TypeOK ==
    /\ variant \in {"agent", "wiseguy"}
    /\ main \in BOOLEAN
    /\ system \in {"", Prompt}
    /\ pc \in InTurn \cup {"input", "exited", "crashed"}
    /\ sync \in BOOLEAN
    /\ step \in 0..RecursionLimit
    /\ turns \in 0..MaxTurns
    /\ err \in {"none", "GraphRecursionError", "ModelInvocationFailure",
                "ToolInvocationFailure", "CancelledError"}

Init ==
    /\ variant \in {"agent", "wiseguy"}
    /\ main \in BOOLEAN
    /\ system \in {"", Prompt}
    /\ main => system = Prompt
    /\ messages = <<>>
    /\ pc = "input"
    /\ sync = TRUE
    /\ step = 0
    /\ trace = <<>>
    /\ sent = <<>>
    /\ inflight = <<>>
    /\ acc = <<>>
    /\ emitted = <<>>
    /\ invoked = <<>>
    /\ ret = [kind |-> "None"]
    /\ err = "none"
    /\ turns = 0
    /\ baseLen = 0
    /\ log = <<>>

----------------------------------------------------------------------------
(* The graph driver: graph.invoke / graph.astream_events *)

None == [kind |-> "None"]

\* what ask() hands back when the graph ends: agent/agent.py returns
\* result["messages"][-1]; wiseguy's __invoke returns graph.invoke's result,
\* the state; the streaming branch returns asyncio.run's None
Return(msgs) ==
    IF variant = "agent" THEN [kind |-> "message", value |-> msgs[Len(msgs)]]
    ELSE IF sync THEN [kind |-> "state", value |-> msgs]
    ELSE None

\* mutant of OutOfSteps: the check lets one superstep too many through
OutOfStepsLate(s) == s > RecursionLimit

\* the loop's check after s supersteps: the graph raises GraphRecursionError
\* once recursion_limit supersteps have run without the loop having stopped
OutOfSteps(s) == s >= RecursionLimit

\* mutant of Persisted: a failed invoke restores the state the turn began with
RolledBack(msgs, e) ==
    IF e # "none" THEN SubSeq(msgs, 1, baseLen) ELSE msgs

\* the state the thread keeps when the invoke ends with e: wiseguy compiles
\* the graph with an InMemorySaver, which holds the last superstep's state;
\* agent compiles without one, and an exception leaves no state behind
Persisted(msgs, e) ==
    IF e # "none" /\ variant = "agent" THEN <<>> ELSE msgs

\* where control goes when ask() ends with e: neither main() catches an
\* exception; wiseguy's main loops, agent's main asks once
AfterAsk(e) ==
    IF e # "none" THEN (IF main THEN "crashed" ELSE "input")
    ELSE IF main /\ variant = "agent" THEN "exited"
    ELSE "input"

EndTurn(msgs, e, r) ==
    /\ messages' = Persisted(msgs, e)
    /\ err' = e
    /\ ret' = r
    /\ pc' = AfterAsk(e)

\* mutant of Commit: the node's return value replaces the channel's value
CommitOverwrite(out, next) ==
    /\ log' = log \o out
    /\ step' = step + 1
    /\ IF OutOfSteps(step + 1) THEN EndTurn(out, "GraphRecursionError", None)
       ELSE IF next = "END" THEN EndTurn(out, "none", Return(out))
       ELSE /\ messages' = out
            /\ pc' = next
            /\ UNCHANGED <<err, ret>>

\* a node returned `out`: operator.add appends it to the channel, and the
\* loop goes on to `next` unless it is out of steps
Commit(out, next) ==
    LET msgs == messages \o out IN
    /\ log' = log \o out
    /\ step' = step + 1
    /\ IF OutOfSteps(step + 1) THEN EndTurn(msgs, "GraphRecursionError", None)
       ELSE IF next = "END" THEN EndTurn(msgs, "none", Return(msgs))
       ELSE /\ messages' = msgs
            /\ pc' = next
            /\ UNCHANGED <<err, ret>>

\* the node a fresh input starts at: set_entry_point
EntryPoint == IF variant = "wiseguy" THEN "init" ELSE "llm"

\* mutant of StartState: every invoke starts from the input alone
StartStateFresh(q) == <<HumanMessage(q)>>

\* the state an invoke starts from: the thread's checkpoint (wiseguy) or
\* nothing (agent), plus the input
StartState(q) ==
    IF variant = "wiseguy" THEN Append(messages, HumanMessage(q))
    ELSE <<HumanMessage(q)>>

----------------------------------------------------------------------------
(* The nodes *)

\* init_state's return value
init_state ==
    <<IF system # "" THEN SystemMessage(system) ELSE EmptyList>>

\* mutant of exists_action: a single tool call does not count
exists_actionOffByOne(state) == Len(state[Len(state)].tool_calls) > 1

\* exists_action, and the conditional edge {True: "action", False: END}
exists_action(state) == Len(state[Len(state)].tool_calls) > 0

Route(state) == IF exists_action(state) THEN "action" ELSE "END"

\* the list call_openai hands to self.model.invoke
ModelInput ==
    IF variant = "agent" /\ system # ""
    THEN <<SystemMessage(system)>> \o messages
    ELSE messages

\* self.system after call_openai has built its input
SystemAfterCall == IF variant = "agent" THEN "" ELSE system

\* mutant of ToolResultFor: the result carries the tool's name as its id
ToolResultWrongId(t, o) ==
    ToolMessage(t.name, t.name,
                IF t.name \notin tools THEN RetryString ELSE Str(o.value))

\* mutant of ToolResultFor: the registry is not consulted
ToolResultUnchecked(t, o) == ToolMessage(t.id, t.name, Str(o.value))

\* take_action's result for call t when the capability's outcome is o
ToolResultFor(t, o) ==
    ToolMessage(t.id, t.name,
                IF t.name \notin tools THEN RetryString ELSE Str(o.value))

\* mutant of Results: the results come out in reverse order
ResultsReversed(tcs, o) ==
    [i \in 1..Len(tcs) |->
        ToolResultFor(tcs[Len(tcs) + 1 - i], o[Len(tcs) + 1 - i])]

\* take_action's results list
Results(tcs, o) == [i \in 1..Len(tcs) |-> ToolResultFor(tcs[i], o[i])]

\* the first call whose capability raises, 0 when none does
FirstRaise(tcs, o) ==
    LET bad == {i \in 1..Len(tcs) : tcs[i].name \in tools /\ o[i].raises}
    IN IF bad = {} THEN 0 ELSE CHOOSE i \in bad : \A j \in bad : i <= j

\* mutant of Invocations: the loop runs over the calls from the last to the
\* first
RECURSIVE InvocationsBackwards(_, _)
InvocationsBackwards(tcs, n) ==
    IF n = 0 THEN <<>>
    ELSE (IF tcs[n].name \in tools
          THEN <<[name |-> tcs[n].name, args |-> tcs[n].args, id |-> tcs[n].id]>>
          ELSE <<>>) \o
         InvocationsBackwards(tcs, n - 1)

\* the capabilities take_action invokes among the first n calls
RECURSIVE Invocations(_, _)
Invocations(tcs, n) ==
    IF n = 0 THEN <<>>
    ELSE Invocations(tcs, n - 1) \o
         (IF tcs[n].name \in tools
          THEN <<[name |-> tcs[n].name, args |-> tcs[n].args, id |-> tcs[n].id]>>
          ELSE <<>>)

----------------------------------------------------------------------------
(* Actions *)

\* ask(question, sync): main() of wiseguy calls ask(user_input), streaming
Ask(q, s) ==
    /\ pc = "input"
    /\ turns < MaxTurns
    /\ variant = "agent" => s
    /\ (main /\ variant = "wiseguy") => ~s
    /\ sync' = s
    /\ messages' = StartState(q)
    /\ baseLen' = IF variant = "wiseguy" THEN Len(messages) ELSE 0
    /\ log' = <<HumanMessage(q)>>
    /\ pc' = EntryPoint
    /\ step' = 0
    /\ trace' = <<>>
    /\ emitted' = <<>>
    /\ invoked' = <<>>
    /\ ret' = None
    /\ err' = "none"
    /\ turns' = turns + 1
    /\ UNCHANGED <<variant, main, system, sent, inflight, acc>>

\* wiseguy's main: an empty line ends the loop
MainExit ==
    /\ pc = "input"
    /\ main
    /\ variant = "wiseguy"
    /\ pc' = "exited"
    /\ UNCHANGED <<variant, main, system, messages, sync, step, trace, sent,
                   inflight, acc, emitted, invoked, ret, err, turns, baseLen, log>>

\* node "init"
InitNode ==
    /\ pc = "init"
    /\ trace' = Append(trace, "init")
    /\ Commit(init_state, "llm")
    /\ UNCHANGED <<variant, main, system, sync, sent, inflight, acc, emitted,
                   invoked, turns, baseLen>>

\* node "llm", synchronous: self.model.invoke returns the message
LlmInvoke ==
    /\ pc = "llm"
    /\ sync
    /\ \E r \in Responses :
          /\ sent' = ModelInput
          /\ system' = SystemAfterCall
          /\ trace' = Append(trace, "llm")
          /\ Commit(<<Assemble(r)>>, Route(<<Assemble(r)>>))
    /\ UNCHANGED <<variant, main, sync, inflight, acc, emitted, invoked, turns,
                   baseLen>>

\* node "llm", streaming: the model is invoked and starts to produce chunks
LlmStart ==
    /\ pc = "llm"
    /\ ~sync
    /\ \E r \in Responses : inflight' = r
    /\ acc' = <<>>
    /\ sent' = ModelInput
    /\ system' = SystemAfterCall
    /\ trace' = Append(trace, "llm")
    /\ pc' = "stream"
    /\ UNCHANGED <<variant, main, messages, sync, step, emitted, invoked, ret,
                   err, turns, baseLen, log>>

\* what __ainvoke prints for an on_chat_model_stream event
Printed(chunk) == IF chunk.content # "" THEN <<chunk.content>> ELSE <<>>

\* mutant of OnChunk: every streamed chunk is appended to the state
OnChunkPartial(chunk) == <<AIMessage(chunk.content, chunk.tool_calls)>>

\* what __ainvoke's loop body appends to the state for a streamed chunk:
\* it prints, and writes nothing
OnChunk(chunk) == <<>>

\* mutant of StreamChunk: the chunk is printed but is missing from the
\* message the client assembles
StreamChunkLossy ==
    /\ pc = "stream"
    /\ inflight # <<>>
    /\ acc' = acc
    /\ inflight' = Tail(inflight)
    /\ emitted' = emitted \o Printed(Head(inflight))
    /\ messages' = messages \o OnChunk(Head(inflight))
    /\ UNCHANGED <<variant, main, system, pc, sync, step, trace, sent, invoked,
                   ret, err, turns, baseLen, log>>

\* one on_chat_model_stream event reaches __ainvoke
StreamChunk ==
    /\ pc = "stream"
    /\ inflight # <<>>
    /\ acc' = Append(acc, Head(inflight))
    /\ inflight' = Tail(inflight)
    /\ emitted' = emitted \o Printed(Head(inflight))
    /\ messages' = messages \o OnChunk(Head(inflight))
    /\ UNCHANGED <<variant, main, system, pc, sync, step, trace, sent, invoked,
                   ret, err, turns, baseLen, log>>

\* the stream is complete: call_openai returns the assembled message
LlmFinish ==
    /\ pc = "stream"
    /\ inflight = <<>>
    /\ acc' = <<>>
    /\ Commit(<<Assemble(acc)>>, Route(<<Assemble(acc)>>))
    /\ UNCHANGED <<variant, main, system, sync, trace, sent, inflight, emitted,
                   invoked, turns, baseLen>>

\* mutant of ModelFail: the exception is caught and an empty answer is
\* recorded in its place
ModelFailSwallowed ==
    /\ pc = "llm"
    /\ sent' = ModelInput
    /\ system' = SystemAfterCall
    /\ trace' = Append(trace, "llm")
    /\ EndTurn(Append(messages, AIMessage("", <<>>)), "ModelInvocationFailure", None)
    /\ UNCHANGED <<variant, main, sync, step, inflight, acc, emitted, invoked,
                   turns, baseLen, log>>

\* self.model.invoke raises: nothing catches it
ModelFail ==
    /\ pc = "llm"
    /\ sent' = ModelInput
    /\ system' = SystemAfterCall
    /\ trace' = Append(trace, "llm")
    /\ EndTurn(messages, "ModelInvocationFailure", None)
    /\ UNCHANGED <<variant, main, sync, step, inflight, acc, emitted, invoked,
                   turns, baseLen, log>>

\* the model's stream breaks before its end
StreamFail ==
    /\ pc = "stream"
    /\ inflight # <<>>
    /\ inflight' = <<>>
    /\ acc' = <<>>
    /\ EndTurn(messages, "ModelInvocationFailure", None)
    /\ UNCHANGED <<variant, main, system, sync, step, trace, sent, emitted,
                   invoked, turns, baseLen, log>>

\* the host cancels the streaming task at a point where it is suspended
Cancel ==
    /\ pc \in InTurn
    /\ ~sync
    /\ inflight' = <<>>
    /\ acc' = <<>>
    /\ EndTurn(messages, "CancelledError", None)
    /\ UNCHANGED <<variant, main, system, sync, step, trace, sent, emitted,
                   invoked, turns, baseLen, log>>

\* node "action": every capability returns
TakeAction ==
    /\ pc = "action"
    /\ LET tcs == messages[Len(messages)].tool_calls IN
       \E o \in [1..Len(tcs) -> ToolOutcomes] :
          /\ FirstRaise(tcs, o) = 0
          /\ invoked' = invoked \o Invocations(tcs, Len(tcs))
          /\ Commit(Results(tcs, o), "llm")
    /\ trace' = Append(trace, "action")
    /\ UNCHANGED <<variant, main, system, sync, sent, inflight, acc, emitted,
                   turns, baseLen>>

\* node "action": a capability raises, and nothing catches it
TakeActionRaises ==
    /\ pc = "action"
    /\ LET tcs == messages[Len(messages)].tool_calls IN
       \E o \in [1..Len(tcs) -> ToolOutcomes] :
          /\ FirstRaise(tcs, o) # 0
          /\ invoked' = invoked \o Invocations(tcs, FirstRaise(tcs, o))
    /\ trace' = Append(trace, "action")
    /\ EndTurn(messages, "ToolInvocationFailure", None)
    /\ UNCHANGED <<variant, main, system, sync, step, sent, inflight, acc,
                   emitted, turns, baseLen, log>>

Next ==
    \/ \E q \in Questions, s \in BOOLEAN : Ask(q, s)
    \/ MainExit
    \/ InitNode
    \/ LlmInvoke
    \/ LlmStart
    \/ StreamChunk
    \/ LlmFinish
    \/ ModelFail
    \/ StreamFail
    \/ Cancel
    \/ TakeAction
    \/ TakeActionRaises

Spec == Init /\ [][Next]_vars

----------------------------------------------------------------------------
(* Vocabulary of the properties *)

\* the last ask() returned normally
Done == turns > 0 /\ pc \notin InTurn /\ err = "none"

\* the positions of seq that hold a message of type t
Positions(seq, t) == {i \in 1..Len(seq) : seq[i].type = t}

\* the position of the last assistant message of seq, 0 when none
LastAI(seq) ==
    IF Positions(seq, "ai") = {} THEN 0
    ELSE CHOOSE i \in Positions(seq, "ai") : \A j \in Positions(seq, "ai") : j <= i

\* the position of the first assistant message of seq, 0 when none
FirstAI(seq) ==
    IF Positions(seq, "ai") = {} THEN 0
    ELSE CHOOSE i \in Positions(seq, "ai") : \A j \in Positions(seq, "ai") : i <= j

\* how many times node n was entered in this invoke
Entered(n) == Cardinality({i \in 1..Len(trace) : trace[i] = n})

\* the orchestrator states the turn went through: node "init" is not one
OrchestratorStates == SelectSeq(trace, LAMBDA n : n # "init")

\* node "action" was the last node entered and it has returned
ActionDone ==
    /\ trace # <<>>
    /\ trace[Len(trace)] = "action"
    /\ step = Len(trace)

\* the tool calls of the batch that node "action" ran last
LastBatch == log[LastAI(log)].tool_calls

\* what the thread holds beyond the state the running turn started from
ThisTurn == SubSeq(messages, baseLen + 1, Len(messages))

----------------------------------------------------------------------------
(* C1 *)

\* C1: the conversation state holds at most one system message, however
\* many turns have run.
C1_AtMostOneSystemMessage ==
    Cardinality(Positions(messages, "system")) <= 1

----------------------------------------------------------------------------
(* C2 *)

NoUserBeforeSystem(seq) ==
    \A i, j \in 1..Len(seq) :
        (i < j /\ seq[j].type = "system") => seq[i].type # "human"

\* C2: the system prompt is injected before any user message, in the state
\* and in every list handed to the model, and a later turn injects nothing.
C2_SystemPromptFirstAndOnce ==
    /\ NoUserBeforeSystem(messages)
    /\ NoUserBeforeSystem(sent)
    /\ turns > 1 => Positions(log, "system") = {}

----------------------------------------------------------------------------
(* C3 *)

\* the first response of the turn's model asked for no tool
FirstResponseToolFree ==
    /\ FirstAI(log) # 0
    /\ log[FirstAI(log)].tool_calls = <<>>

\* C3: a synchronous ask() whose first model response has no tool call ends
\* after one model invocation and no tool execution, and returns that
\* assistant message.
C3_ToolFreeAskReturnsTheMessage ==
    (Done /\ sync /\ FirstResponseToolFree) =>
        /\ Entered("llm") = 1
        /\ Entered("action") = 0
        /\ invoked = <<>>
        /\ ret.kind = "message"
        /\ ret.value = log[FirstAI(log)]

----------------------------------------------------------------------------
(* C4 *)

\* C4: once node "action" has returned for a batch c1..cn, the turn's last
\* n elements are exactly the tool messages r1..rn, with ri.tool_call_id =
\* ci.id and ri.name = ci.name, and the assistant message stands right
\* before them.
C4_ResultsMatchCallsInOrder ==
    ActionDone =>
        LET k == LastAI(log)
            tcs == LastBatch
        IN /\ k # 0
           /\ Len(log) = k + Len(tcs)
           /\ \A i \in 1..Len(tcs) :
                 /\ log[k + i].type = "tool"
                 /\ log[k + i].tool_call_id = tcs[i].id
                 /\ log[k + i].name = tcs[i].name

\* a batch of three calls, two of them naming the same tool and one an
\* unknown tool, has been executed
C4_Witness ==
    /\ ActionDone
    /\ Len(LastBatch) = 3
    /\ LastBatch[2].name = LastBatch[3].name
    /\ LastBatch[1].name \notin tools
    /\ Len(log) = LastAI(log) + 3

----------------------------------------------------------------------------
(* C5 *)

\* the elements of a sequence
Range(seq) == {seq[i] : i \in 1..Len(seq)}

\* C5: no capability is ever invoked under an unregistered name; the tool
\* stage fails only when an invoked capability raised; and once node
\* "action" has returned, every call of an unregistered name has the retry
\* string as its result, every registered call of the batch was invoked,
\* and the turn goes on at node "llm" unless it was ended from outside the
\* tool stage.
C5_UnknownToolAnsweredInBand ==
    /\ \A e \in Range(invoked) : e.name \in tools
    /\ err = "ToolInvocationFailure" => invoked # <<>>
    /\ ActionDone =>
          LET k == LastAI(log)
              tcs == LastBatch
          IN /\ \A i \in 1..Len(tcs) :
                    tcs[i].name \notin tools =>
                        /\ log[k + i].content = RetryString
                        /\ \A j \in (i + 1)..Len(tcs) :
                              /\ log[k + j].tool_call_id = tcs[j].id
                              /\ tcs[j].name \in tools =>
                                    \E e \in Range(invoked) : e.id = tcs[j].id
             /\ err # "ToolInvocationFailure"
             /\ (err = "none" /\ pc \in InTurn) => pc \in {"llm", "stream"}
             /\ (step < RecursionLimit /\ err # "CancelledError") => pc = "llm"

\* a batch whose first call names an unknown tool has been executed, its
\* later calls were invoked, and the orchestrator awaits the model
C5_Witness ==
    /\ ActionDone
    /\ LastBatch[1].name \notin tools
    /\ log[LastAI(log) + 1].content = RetryString
    /\ Len(invoked) >= 2
    /\ pc = "llm"
    /\ err = "none"

----------------------------------------------------------------------------
(* C6 *)

\* the steps of a running turn
TurnStep ==
    \/ InitNode
    \/ LlmInvoke
    \/ LlmStart
    \/ StreamChunk
    \/ LlmFinish
    \/ TakeAction

\* the graph driver runs the next node as long as there is one, and the
\* model and the tools answer
FairSpec == Spec /\ WF_vars(TurnStep)

----------------------------------------------------------------------------
(* C7 *)

\* C7: when ask() fails with GraphRecursionError, the thread's state holds,
\* after the state the turn started from, every element the turn appended.
C7_NoRollbackOnRecursionError ==
    (variant = "wiseguy" /\ err = "GraphRecursionError") =>
        /\ Len(messages) = baseLen + Len(log)
        /\ ThisTurn = log
        /\ Len(log) > RecursionLimit

\* the second turn of a thread failed with GraphRecursionError
C7_Witness ==
    /\ variant = "wiseguy"
    /\ err = "GraphRecursionError"
    /\ baseLen > 0
    /\ Positions(log, "tool") # {}

----------------------------------------------------------------------------
(* C8 *)

\* the turn was: one model response with one tool call, its execution, and
\* a final answer
OneSearchTurn ==
    /\ Done
    /\ OrchestratorStates = <<"llm", "action", "llm">>
    /\ Len(log[FirstAI(log)].tool_calls) = 1

\* C8: a one-search turn leaves the state four messages longer than it
\* found it (user, assistant, tool result, assistant), the system message
\* seeding a thread's first turn aside.
C8_OneSearchTurnAddsFourMessages ==
    OneSearchTurn =>
        \/ Len(messages) = baseLen + 4
        \/ /\ turns = 1
           /\ Positions(messages, "system") # {}
           /\ Len(messages) = baseLen + 5

----------------------------------------------------------------------------
(* C9 *)

\* m is a message the model returned whole
FullyAssembled(m) == \E r \in Responses : m = Assemble(r)

\* C9: when ask() streams, the state holds nothing but what the nodes
\* returned: while a response is streaming, and after the stream was broken
\* or cancelled, the state is the one the node started from, without a
\* message for the running response, and every assistant message in it is
\* a fully assembled one.
C9_NoPartialMessageInState ==
    (variant = "wiseguy" /\ ~sync /\ turns > 0) =>
        /\ ThisTurn = log
        /\ \A i \in Positions(messages, "ai") : FullyAssembled(messages[i])
        /\ Cardinality(Positions(log, "ai")) <= Entered("llm")
        /\ pc = "stream" =>
              Cardinality(Positions(log, "ai")) = Entered("llm") - 1

\* a fragment has been printed and the rest of the response is pending
C9_Witness ==
    /\ ~sync
    /\ pc = "stream"
    /\ emitted # <<>>
    /\ acc # <<>>
    /\ inflight # <<>>

----------------------------------------------------------------------------
(* C10 *)

\* C10: in wiseguy's interactive loop a failed turn leaves the process
\* reading the next line.
C10_LoopSurvivesFailedTurn ==
    (/\ main
     /\ variant = "wiseguy"
     /\ err \in {"ModelInvocationFailure", "ToolInvocationFailure",
                 "GraphRecursionError"}) => pc = "input"

----------------------------------------------------------------------------
(* C11 *)

\* the calls of a batch that name a registered tool
RegisteredCalls(tcs) == SelectSeq(tcs, LAMBDA t : t.name \in tools)

\* the tool messages of the turn that a capability's return value made
AnsweredCalls == SelectSeq(log, LAMBDA m : m.type = "tool" /\ m.name \in tools)

\* the invocations made for the batch that was not completed
OpenInvocations == SubSeq(invoked, Len(AnsweredCalls) + 1, Len(invoked))

\* C11: a failure of the model or of a tool ends ask() with the exception:
\* the failing node was entered once and nothing ran after it, ask()
\* returned nothing, and the state holds what the completed nodes returned
\* and nothing of the failing one (no assistant message of the failed model
\* call, no tool message of the failed batch, whose capabilities were each
\* invoked at most once, the raising one last).
C11_FailurePropagatesUnretried ==
    err \in {"ModelInvocationFailure", "ToolInvocationFailure"} =>
        /\ pc \notin InTurn
        /\ ret = None
        /\ Len(trace) = step + 1
        /\ variant = "wiseguy" => ThisTurn = log
        /\ variant = "agent" => messages = <<>>
        /\ err = "ModelInvocationFailure" =>
              /\ trace[Len(trace)] = "llm"
              /\ Cardinality(Positions(log, "ai")) = Entered("llm") - 1
              /\ messages # <<>> => messages[Len(messages)].type # "ai"
        /\ err = "ToolInvocationFailure" =>
              /\ trace[Len(trace)] = "action"
              /\ LastAI(log) = Len(log)
              /\ Len(OpenInvocations) >= 1
              /\ Len(OpenInvocations) <= Len(RegisteredCalls(LastBatch))
              /\ \A i \in 1..Len(OpenInvocations) :
                    OpenInvocations[i].id = RegisteredCalls(LastBatch)[i].id

\* the second capability of a batch raised in a turn of a thread that had
\* completed a tool round before
C11_Witness ==
    /\ err = "ToolInvocationFailure"
    /\ variant = "wiseguy"
    /\ Len(OpenInvocations) = 2
    /\ AnsweredCalls # <<>>

----------------------------------------------------------------------------
(* C12 *)

\* the ids of a batch of tool calls
Ids(tcs) == {tcs[i].id : i \in 1..Len(tcs)}

\* C12: every tool message of the state follows an assistant message, with
\* only tool messages in between, whose tool_calls hold its tool_call_id.
C12_ToolResultRefersToPrecedingCall ==
    \A i \in Positions(messages, "tool") :
        \E k \in 1..(i - 1) :
            /\ messages[k].type = "ai"
            /\ \A j \in (k + 1)..(i - 1) : messages[j].type = "tool"
            /\ messages[i].tool_call_id \in Ids(messages[k].tool_calls)

\* the state holds the three results of one batch
C12_Witness ==
    \E i \in Positions(messages, "tool") :
        /\ messages[i].tool_call_id = "c3"
        /\ messages[i - 3].type = "ai"

----------------------------------------------------------------------------
(* C13 *)

IsPrefix(a, b) == Len(a) <= Len(b) /\ SubSeq(b, 1, Len(a)) = a

\* what a step appends to the state
Appended == SubSeq(messages', Len(messages) + 1, Len(messages'))

\* C13: every step of a turn leaves the state it found as a prefix of the
\* state it leaves; a step that completes no node appends nothing, node
\* "llm" appends exactly one assistant message, and node "action" exactly
\* one tool message per call of the batch. (agent keeps no state once an
\* exception has ended its invoke: such a step is not covered.)
C13_AppendOnly ==
    [][(pc \in InTurn /\ ~(variant = "agent" /\ err' # "none")) =>
          /\ IsPrefix(messages, messages')
          /\ step' = step => messages' = messages
          /\ (pc \in {"llm", "stream"} /\ step' # step) =>
                /\ Len(Appended) = 1
                /\ Appended[1].type = "ai"
          /\ (pc = "action" /\ step' # step) =>
                /\ Len(Appended) = Len(messages[Len(messages)].tool_calls)
                /\ Len(Appended) >= 1
                /\ \A i \in 1..Len(Appended) : Appended[i].type = "tool"
      ]_vars

\* a later turn of a thread has appended an assistant message and a batch
C13_Witness ==
    /\ baseLen > 0
    /\ Len(messages) = baseLen + Len(log)
    /\ Positions(log, "tool") # {}
    /\ log[Len(log)].type = "ai"

----------------------------------------------------------------------------
(* C14 *)

\* C14: when node "llm" has returned and the turn goes on, the next node is
\* "action" exactly if the returned message has a tool call, and the turn
\* is done exactly if it has none; when node "action" has returned and the
\* turn goes on, the next node is "llm"; and a turn that is done has an
\* assistant message without tool calls as the last message of its state.
C14_TransitionsFollowLastMessage ==
    [][/\ Done' =>
            /\ messages' # <<>>
            /\ messages'[Len(messages')].type = "ai"
            /\ messages'[Len(messages')].tool_calls = <<>>
       /\ (pc \in {"llm", "stream"} /\ step' = step + 1 /\ err' = "none") =>
             /\ messages'[Len(messages')].type = "ai"
             /\ pc' = "action" <=>
                   Len(messages'[Len(messages')].tool_calls) >= 1
             /\ pc' \notin InTurn <=>
                   Len(messages'[Len(messages')].tool_calls) = 0
       /\ (pc = "action" /\ step' = step + 1 /\ err' = "none") =>
             pc' = "llm"
      ]_vars

\* a turn went from the model to the tools, back to the model, and is done
C14_Witness ==
    /\ Done
    /\ Entered("action") >= 1
    /\ trace[Len(trace)] = "llm"
    /\ messages[Len(messages)].tool_calls = <<>>

----------------------------------------------------------------------------
(* C15 *)

\* a system prompt is configured: the Agent holds one, or has handed one to
\* the model
SystemConfigured ==
    system # "" \/ (sent # <<>> /\ sent[1].type = "system")

\* C15: every model invocation receives the whole state in order, with a
\* system message in it when a system prompt is configured, and the node
\* that made it appends exactly one assistant message to the state.
C15_ModelReceivesFullHistory ==
    [][/\ trace' = Append(trace, "llm") =>
            /\ IsPrefix(messages, sent') \/
                 SubSeq(sent', 2, Len(sent')) = messages
            /\ SystemConfigured =>
                 \E i \in 1..Len(sent') : sent'[i].type = "system"
       /\ (/\ pc \in {"llm", "stream"}
           /\ step' = step + 1
           /\ ~(variant = "agent" /\ err' # "none")) =>
            /\ Len(Appended) = 1
            /\ Appended[1].type = "ai"
            /\ IsPrefix(messages, messages')
      ]_vars

----------------------------------------------------------------------------
(* C16 *)

\* the registered calls the turn's first n logged messages ask for, in the
\* order received
RECURSIVE Requested(_)
Requested(n) ==
    IF n = 0 THEN <<>>
    ELSE Requested(n - 1) \o
         (IF log[n].type = "ai"
          THEN LET tcs == RegisteredCalls(log[n].tool_calls) IN
               [i \in 1..Len(tcs) |->
                  [name |-> tcs[i].name, args |-> tcs[i].args, id |-> tcs[i].id]]
          ELSE <<>>)

\* the tool messages that directly follow position k of the state
RECURSIVE Following(_)
Following(k) ==
    IF k < Len(messages) /\ messages[k + 1].type = "tool"
    THEN 1 + Following(k + 1)
    ELSE 0

\* C16: the capabilities are invoked in the order their calls were received,
\* each registered call of a batch once: the invocations of a turn are the
\* registered calls of its finished batches in order, followed, when a
\* capability raised, by the calls of the failing batch up to that one; and
\* an assistant message's batch is followed in the state by no tool result
\* or by one for each of its calls.
C16_BatchSequentialAndAtomic ==
    /\ turns > 0 =>
         LET before == Requested(Len(log) - 1)
             upto   == Requested(Len(log))
         IN  IF err = "ToolInvocationFailure"
             THEN /\ IsPrefix(before, invoked)
                  /\ IsPrefix(invoked, upto)
                  /\ Len(invoked) > Len(before)
             ELSE invoked = (IF log[Len(log)].type = "ai" THEN before ELSE upto)
    /\ \A k \in Positions(messages, "ai") :
         Following(k) \in {0, Len(messages[k].tool_calls)}

\* a batch of three calls, two of them registered, was executed and its
\* results are in the state
C16_Witness ==
    /\ Len(invoked) >= 2
    /\ \E k \in Positions(messages, "ai") :
         /\ Len(messages[k].tool_calls) = 3
         /\ Following(k) = 3

----------------------------------------------------------------------------
(* C17 *)

\* the text a sequence of emitted fragments spells
RECURSIVE Joined(_)
Joined(fs) == IF fs = <<>> THEN "" ELSE Head(fs) \o Joined(Tail(fs))

\* C17: a streaming ask() returns no value, emits no empty fragment, and
\* what it has emitted when it returns is, in order, the text of the turn's
\* final assistant message and of no other message.
C17_StreamEmitsFinalMessageOnly ==
    /\ (turns > 0 /\ ~sync /\ pc \notin InTurn) => ret = None
    /\ \A i \in 1..Len(emitted) : emitted[i] # ""
    /\ (Done /\ ~sync) =>
          Joined(emitted) = messages[Len(messages)].content

----------------------------------------------------------------------------
(* C18 *)

\* C18: on a thread (wiseguy: the graph is compiled with the InMemorySaver
\* and every invoke names thread_id "1"), a turn starts from the state the
\* previous turn left, followed by the new user message; the steps of the
\* turn only extend that state; and each model invocation of the turn is
\* handed the state as it then is.
C18_StatePersistsAcrossTurns ==
    [][variant = "wiseguy" =>
         /\ turns' = turns + 1 =>
              \E q \in Questions : messages' = Append(messages, HumanMessage(q))
         /\ pc \in InTurn => IsPrefix(messages, messages')
         /\ trace' = Append(trace, "llm") => sent' = messages
      ]_vars

\* the model is invoked in the second turn of a thread, with the first
\* turn's final state and the new user message at the head of its input
C18_Witness ==
    /\ variant = "wiseguy"
    /\ turns = 2
    /\ Entered("llm") >= 1
    /\ baseLen >= 3
    /\ messages[baseLen + 1].type = "human"
    /\ IsPrefix(SubSeq(messages, 1, baseLen + 1), sent)

----------------------------------------------------------------------------
(* C19 *)

Roles == {"system", "human", "ai", "tool"}

\* C19: every element of the state's messages is a message whose role is
\* system, user, assistant or tool; and when no system prompt is configured,
\* the start of a turn has added neither a system message nor anything else
\* between the user message and the first assistant message.
C19_StateHoldsOnlyMessages ==
    /\ \A i \in 1..Len(messages) : messages[i].type \in Roles
    /\ (system = "" /\ pc \in InTurn /\ Entered("llm") = 0) =>
          /\ Len(log) = 1
          /\ Positions(messages, "system") = {}

----------------------------------------------------------------------------
(* C20 *)

\* the node the graph is at: while chunks arrive, node "llm" is running
ViewPc == IF pc = "stream" THEN "llm" ELSE pc

\* a step that the state and the position in the graph do not show
Stutters ==
    /\ UNCHANGED <<messages, log, step, err, invoked>>
    /\ ViewPc' = ViewPc

\* what graph.invoke does to the state when a node returns `out` and the
\* edge leads to `next`
SyncCommit(out, next) ==
    LET e == IF OutOfSteps(step + 1) THEN "GraphRecursionError" ELSE "none" IN
    /\ log' = log \o out
    /\ step' = step + 1
    /\ messages' = Persisted(messages \o out, e)
    /\ err' = e
    /\ pc' = IF e # "none" \/ next = "END" THEN AfterAsk(e) ELSE next

\* what graph.invoke does to the state when a node raises e
SyncRaise(e) ==
    /\ UNCHANGED <<log, step>>
    /\ messages' = Persisted(messages, e)
    /\ err' = e
    /\ pc' = AfterAsk(e)

\* the steps of a synchronous turn, as they show in the state, for the model
\* response under way and some tool results
SyncInit ==
    /\ pc = "init"
    /\ invoked' = invoked
    /\ SyncCommit(init_state, "llm")

SyncLlm ==
    /\ ViewPc = "llm"
    /\ invoked' = invoked
    /\ \/ \E r \in Responses :
            /\ pc = "stream" => r = acc \o inflight
            /\ SyncCommit(<<Assemble(r)>>, Route(<<Assemble(r)>>))
       \/ SyncRaise("ModelInvocationFailure")

SyncAction ==
    /\ pc = "action"
    /\ LET tcs == messages[Len(messages)].tool_calls IN
       \E o \in [1..Len(tcs) -> ToolOutcomes] :
          IF FirstRaise(tcs, o) = 0
          THEN /\ invoked' = invoked \o Invocations(tcs, Len(tcs))
               /\ SyncCommit(Results(tcs, o), "llm")
          ELSE /\ invoked' = invoked \o Invocations(tcs, FirstRaise(tcs, o))
               /\ SyncRaise("ToolInvocationFailure")

\* C20: the steps of a synchronous turn are SyncInit, SyncLlm and
\* SyncAction; every step of a streaming turn that is not its cancellation
\* either leaves the state and the position in the graph as they are, or
\* changes them as one of those steps does from the same state with the
\* same model response and tool results; and a synchronous turn emits
\* nothing.
C20_StreamingRefinesSynchronous ==
    [][/\ sync' => emitted' = <<>>
       /\ (/\ variant = "wiseguy"
           /\ pc \in InTurn
           /\ err' # "CancelledError") =>
              \/ SyncInit
              \/ SyncLlm
              \/ SyncAction
              \/ ~sync /\ Stutters
      ]_vars

\* a streaming turn took a model response, ran its tools, took the answer
\* and is done
C20_Witness ==
    /\ variant = "wiseguy"
    /\ ~sync
    /\ Done
    /\ Entered("action") >= 1
    /\ emitted # <<>>
    /\ ret = None

=============================================================================
